---- MODULE Spec2Model ----
(***************************************************************************)
(* Model of the zcash_note_encryption crate (src/src/lib.rs,               *)
(* src/src/note_bytes.rs): the encryption context NoteEncryption, the      *)
(* trial-decryption and output-recovery entry points, the shared validity  *)
(* check and the length-checked byte containers.                           *)
(*                                                                         *)
(* The crate is generic over a Domain.  The model instantiates it with a   *)
(* small Sapling-shaped domain: a prime-order group written additively on  *)
(* 0 .. Q-1 (scalar multiplication is multiplication modulo Q), a          *)
(* four-byte compact note plaintext (lead byte, diversifier, value, rseed) *)
(* followed by the memo, and a binding (injective) note commitment.        *)
(* ChaCha20 is a keystream indexed by byte offset, Poly1305 a tag computed *)
(* from the one-time key (keystream bytes 0..31) and the ciphertext body.  *)
(* Bytes are three bits wide.                                              *)
(***************************************************************************)
EXTENDS Integers, Sequences, FiniteSets, TLC

\* ------------------------------------------------------------------------
\* Bounds of the model
\* ------------------------------------------------------------------------
MaxValue == 1
MaxRseed == 1
MemoSize == 2

\* ------------------------------------------------------------------------
\* Program constants (src/src/lib.rs:48-73)
\* ------------------------------------------------------------------------
\* Width of EphemeralKeyBytes, OutgoingCipherKey and of a symmetric key.
KEY_SIZE == 32

\* Variant: the outgoing plaintext sized for pk_d alone.
OUT_PLAINTEXT_SIZE_pk_d_only == KEY_SIZE

OUT_PLAINTEXT_SIZE == 32 + 32
AEAD_TAG_SIZE == 16
OUT_CIPHERTEXT_SIZE == OUT_PLAINTEXT_SIZE + AEAD_TAG_SIZE

\* ------------------------------------------------------------------------
\* Bytes, options
\* ------------------------------------------------------------------------
Byte == 0 .. 7

None == [some |-> FALSE, v |-> 0]
Some(x) == [some |-> TRUE, v |-> x]

Zeros(n) == [i \in 1 .. n |-> 0]

\* Bitwise exclusive or of two three-bit bytes.
Xor(a, b) ==
    (((a % 2) + (b % 2)) % 2)
    + 2 * ((((a \div 2) % 2) + ((b \div 2) % 2)) % 2)
    + 4 * ((((a \div 4) % 2) + ((b \div 4) % 2)) % 2)

\* ------------------------------------------------------------------------
\* note_bytes.rs: NoteBytesData<N>
\* ------------------------------------------------------------------------
\* from_slice: bytes.try_into().ok()? succeeds iff the length is exactly N.
from_slice(N, bytes) ==
    IF Len(bytes) = N THEN Some(bytes) ELSE None

\* Variant: N.saturating_sub(TAG_SIZE) in place of the checked subtraction.
from_slice_with_tag_saturating(N, output, tag) ==
    LET expected_output_len == IF N < Len(tag) THEN 0 ELSE N - Len(tag)
    IN IF Len(output) # expected_output_len THEN None
       ELSE Some([i \in 1 .. N |->
                   IF i <= expected_output_len
                   THEN output[i]
                   ELSE tag[i - expected_output_len]])

\* from_slice_with_tag: N.checked_sub(TAG_SIZE)?, then the length test, then
\* data[..expected] = output, data[expected..] = tag.
from_slice_with_tag(N, output, tag) ==
    IF N < Len(tag) THEN None
    ELSE LET expected_output_len == N - Len(tag)
         IN IF Len(output) # expected_output_len THEN None
            ELSE Some([i \in 1 .. N |->
                        IF i <= expected_output_len
                        THEN output[i]
                        ELSE tag[i - expected_output_len]])

\* ------------------------------------------------------------------------
\* The cipher: ChaCha20 and ChaCha20-Poly1305 with the all-zero nonce
\* ------------------------------------------------------------------------
\* Keystream byte of ChaCha20(key, nonce = 0) at byte offset off: it
\* depends on the key, on the block (off \div 64) and on the offset in it.
Keystream(key, off) ==
    (key[(off % KEY_SIZE) + 1] + (2 * key[1]) + (4 * key[2])
       + (5 * (off \div 64)) + (3 * (off % 64))) % 8

\* keystream.seek(pos); keystream.apply_keystream(buf)
apply_keystream(key, pos, buf) ==
    [i \in 1 .. Len(buf) |-> Xor(buf[i], Keystream(key, pos + i - 1))]

\* The Poly1305 one-time key: the first 32 bytes of keystream block 0.
Poly1305Key(key) == [i \in 1 .. 32 |-> Keystream(key, i - 1)]

\* The body folded into eight accumulators: bytes i, i + 8, i + 16, ...
RECURSIVE FoldBody(_, _)
FoldBody(body, i) ==
    IF i > Len(body) THEN 0
    ELSE (body[i] + (3 * FoldBody(body, i + 8))) % 8

\* The one-time key folded into eight accumulators.
FoldKey(otk, j) ==
    (otk[j] + (3 * otk[j + 8]) + (5 * otk[j + 16]) + (7 * otk[j + 24])) % 8

\* The 16-byte tag of a ciphertext body (empty associated data).  The MAC
\* is ideal on the model's domain: the last eight bytes depend on the
\* one-time key alone, the first eight on the key and the body, so two
\* tags agree only if key and body do.
Poly1305Tag(key, body) ==
    LET otk == Poly1305Key(key)
    IN [j \in 1 .. AEAD_TAG_SIZE |->
          IF j <= 8
          THEN (otk[j] + FoldBody(body, j) + (5 * (Len(body) % 8))) % 8
          ELSE FoldKey(otk, j - 8)]

\* encrypt_in_place_detached(nonce 0, aad "", buf): the encrypted buffer
\* and the detached tag.  Encryption starts at keystream block 1.
encrypt_in_place_detached(key, buf) ==
    LET ct == apply_keystream(key, 64, buf)
    IN [buf |-> ct, tag |-> Poly1305Tag(key, ct)]

\* decrypt_in_place_detached(nonce 0, aad "", buf, tag): Err when the tag
\* does not authenticate buf, otherwise the decrypted buffer.
decrypt_in_place_detached(key, buf, tag) ==
    IF Poly1305Tag(key, buf) # tag THEN None
    ELSE Some(apply_keystream(key, 64, buf))

\* ------------------------------------------------------------------------
\* The Domain instance (trait Domain, lib.rs:125-309)
\* ------------------------------------------------------------------------
\* The group: points 0 .. Q-1 under addition modulo the prime Q, 0 the
\* identity; scalars 1 .. Q-1.
Points == 0 .. 4
Q == Cardinality(Points)
Scalars == 1 .. (Q - 1)

COMPACT_NOTE_SIZE == 1 + 1 + 1 + 1
NOTE_PLAINTEXT_SIZE == COMPACT_NOTE_SIZE + MemoSize
ENC_CIPHERTEXT_SIZE == NOTE_PLAINTEXT_SIZE + AEAD_TAG_SIZE

\* The canonical 32-byte encoding of a group element or scalar.
Encode32(x) == [i \in 1 .. 32 |-> IF i = 1 THEN x ELSE 0]

\* Decoding: only canonical encodings of values in 0 .. Q-1 decode.
Decode32(bytes) ==
    IF bytes[1] < Q /\ \A i \in 2 .. 32 : bytes[i] = 0
    THEN Some(bytes[1]) ELSE None

\* g_d of a diversifier byte: a non-identity group element, or nothing.
g_d(d) == IF d \in Scalars THEN Some(d) ELSE None

\* Notes carry the diversifier, pk_d, the value and the rseed; zip212 tells
\* whether the rseed is of the post-ZIP-212 form.
Notes ==
    [d : Scalars, pk_d : Scalars, value : Byte, zip212 : BOOLEAN, rseed : Byte]

\* derive_esk: the PRF of the rseed after ZIP 212, nothing before.
derive_esk(note) ==
    IF note.zip212 THEN Some(1 + ((3 * note.rseed) % (Q - 1))) ELSE None

get_pk_d(note) == note.pk_d

prepare_epk(epk) == [prepared |-> epk]

\* ka_derive_public: [esk] g_d(note).
ka_derive_public(note, esk) == (esk * note.d) % Q

\* ka_agree_enc: [esk] pk_d.
ka_agree_enc(esk, pk_d) == (esk * pk_d) % Q

\* ka_agree_dec: [ivk] epk.
ka_agree_dec(ivk, epk) == (ivk * epk.prepared) % Q

\* kdf: the 32-byte key derived from the shared secret and ephemeral_key.
kdf(secret, ephemeral_key) ==
    [i \in 1 .. KEY_SIZE |-> IF i = 1 THEN secret ELSE ephemeral_key[i - 1]]

\* note_plaintext_bytes: lead byte, diversifier, value, rseed, memo.
note_plaintext_bytes(note, memo) ==
    <<(IF note.zip212 THEN 2 ELSE 1), note.d, note.value, note.rseed>> \o memo

\* cmstar: the note commitment, binding in every field of the note.
cmstar(note) ==
    note.d + (8 * note.pk_d) + (64 * note.value) + (512 * note.rseed)
      + (4096 * (IF note.zip212 THEN 1 ELSE 0))

\* ExtractedCommitmentBytes::from(&ExtractedCommitment): little endian.
ExtractedCommitmentBytes(cm) ==
    [i \in 1 .. 32 |-> IF i <= 5 THEN (cm \div (8 ^ (i - 1))) % 8 ELSE 0]

\* derive_ock: the PRF of ovk, cv, cmstar_bytes and ephemeral_key.
derive_ock(ovk, cv, cmstar_bytes, ephemeral_key) ==
    [i \in 1 .. KEY_SIZE |->
        IF i = 1 THEN ovk
        ELSE IF i = 2 THEN cv
        ELSE IF i <= 8 THEN cmstar_bytes[i - 2]
        ELSE IF i <= 16 THEN ephemeral_key[i - 8]
        ELSE 0]

\* outgoing_plaintext_bytes: pk_d || esk.
outgoing_plaintext_bytes(note, esk) == Encode32(note.pk_d) \o Encode32(esk)

epk_bytes(epk) == Encode32(epk)

\* epk: rejects non-canonical encodings and the identity.
epk(ephemeral_key) ==
    LET p == Decode32(ephemeral_key)
    IN IF p.some /\ p.v # 0 THEN p ELSE None

\* The fields of a compact plaintext, checked as both parsers check them.
ParseCompact(pk_d, plaintext) ==
    IF plaintext[1] \notin {1, 2} \/ ~ g_d(plaintext[2]).some
    THEN None
    ELSE LET note == [d |-> plaintext[2], pk_d |-> pk_d,
                      value |-> plaintext[3], zip212 |-> (plaintext[1] = 2),
                      rseed |-> plaintext[4]]
         IN Some([note |-> note, to |-> [d |-> note.d, pk_d |-> pk_d]])

\* Domain::parse_note_plaintext_without_memo_ivk: pk_d = [ivk] g_d.
domain_parse_note_plaintext_without_memo_ivk(ivk, plaintext) ==
    IF g_d(plaintext[2]).some
    THEN ParseCompact((ivk * g_d(plaintext[2]).v) % Q, plaintext)
    ELSE None

\* Domain::parse_note_plaintext_without_memo_ovk: pk_d is given.
parse_note_plaintext_without_memo_ovk(pk_d, plaintext) ==
    ParseCompact(pk_d, plaintext)

split_plaintext_at_memo(plaintext) ==
    IF Len(plaintext) # NOTE_PLAINTEXT_SIZE THEN None
    ELSE Some([compact |-> SubSeq(plaintext, 1, COMPACT_NOTE_SIZE),
               memo |-> SubSeq(plaintext, COMPACT_NOTE_SIZE + 1,
                               NOTE_PLAINTEXT_SIZE)])

\* extract_pk_d: the first 32 bytes, a non-identity group element.
extract_pk_d(out_plaintext) ==
    LET p == Decode32(SubSeq(out_plaintext, 1, 32))
    IN IF p.some /\ p.v # 0 THEN p ELSE None

\* extract_esk: the last 32 bytes, a non-zero scalar.
extract_esk(out_plaintext) ==
    LET e == Decode32(SubSeq(out_plaintext, 33, 64))
    IN IF e.some /\ e.v # 0 THEN e ELSE None

parse_note_plaintext_bytes(plaintext) ==
    from_slice(NOTE_PLAINTEXT_SIZE, plaintext)

parse_note_ciphertext_bytes(output, tag) ==
    from_slice_with_tag(ENC_CIPHERTEXT_SIZE, output, tag)

parse_compact_note_plaintext_bytes(plaintext) ==
    from_slice(COMPACT_NOTE_SIZE, plaintext)

recipient(note) == [d |-> note.d, pk_d |-> note.pk_d]

\* ------------------------------------------------------------------------
\* ShieldedOutput (lib.rs:355-395)
\* ------------------------------------------------------------------------
\* An output is a record [ephemeral_key, cmstar, enc_ciphertext,
\* enc_ciphertext_compact]; enc_ciphertext is None for a compact output.

cmstar_bytes(output) == ExtractedCommitmentBytes(output.cmstar)

\* split_ciphertext_at_tag: None for a compact output, otherwise the
\* ciphertext without its last AEAD_TAG_SIZE bytes, and those bytes.
split_ciphertext_at_tag(output) ==
    IF ~ output.enc_ciphertext.some THEN None
    ELSE LET enc_ciphertext_bytes == output.enc_ciphertext.v
             tag_loc == Len(enc_ciphertext_bytes) - AEAD_TAG_SIZE
         IN Some([plaintext |->
                     parse_note_plaintext_bytes(
                         SubSeq(enc_ciphertext_bytes, 1, tag_loc)).v,
                  tag |-> SubSeq(enc_ciphertext_bytes, tag_loc + 1,
                                 Len(enc_ciphertext_bytes))])

\* ------------------------------------------------------------------------
\* NoteEncryption (lib.rs:427-527)
\* ------------------------------------------------------------------------
\* Variant: epk is derived on the base pk_d, as a shared secret is.
new_epk_on_pk_d(ovk, note, memo) ==
    LET esk == derive_esk(note).v
    IN [epk |-> ka_agree_enc(esk, get_pk_d(note)), esk |-> esk,
        note |-> note, memo |-> memo, ovk |-> ovk]

\* NoteEncryption::new; the caller guarantees derive_esk(note) is present.
new(ovk, note, memo) ==
    LET esk == derive_esk(note).v
    IN [epk |-> ka_derive_public(note, esk), esk |-> esk,
        note |-> note, memo |-> memo, ovk |-> ovk]

\* NoteEncryption::new_with_esk (feature pre-zip-212).
new_with_esk(esk, ovk, note, memo) ==
    [epk |-> ka_derive_public(note, esk), esk |-> esk,
     note |-> note, memo |-> memo, ovk |-> ovk]

encrypt_note_plaintext(self) ==
    LET pk_d == get_pk_d(self.note)
        shared_secret == ka_agree_enc(self.esk, pk_d)
        key == kdf(shared_secret, epk_bytes(self.epk))
        input == note_plaintext_bytes(self.note, self.memo)
        sealed == encrypt_in_place_detached(key, input)
    IN parse_note_ciphertext_bytes(sealed.buf, sealed.tag).v

\* A counter RNG: fill_bytes(n) hands out the next n bytes of the stream.
RngByte(seed, idx) == (seed + (5 * idx) + (idx \div 3) + (idx \div 8)) % 8
fill_bytes(rng, n) ==
    [bytes |-> [i \in 1 .. n |-> RngByte(rng.seed, rng.pos + i - 1)],
     rng |-> [seed |-> rng.seed, pos |-> rng.pos + n]]

\* Variant: with ovk = None only the key is sampled, the input stays zero.
encrypt_outgoing_plaintext_zero_input(self, cv, cm, rng) ==
    LET fill_ock == fill_bytes(rng, KEY_SIZE)
        ock == IF self.ovk.some
               THEN derive_ock(self.ovk.v, cv, ExtractedCommitmentBytes(cm),
                               epk_bytes(self.epk))
               ELSE fill_ock.bytes
        input == IF self.ovk.some
                 THEN outgoing_plaintext_bytes(self.note, self.esk)
                 ELSE Zeros(OUT_PLAINTEXT_SIZE)
        sealed == encrypt_in_place_detached(ock, input)
    IN [output |-> [i \in 1 .. OUT_CIPHERTEXT_SIZE |->
                      IF i <= OUT_PLAINTEXT_SIZE THEN sealed.buf[i]
                      ELSE sealed.tag[i - OUT_PLAINTEXT_SIZE]],
        rng |-> IF self.ovk.some THEN rng
                ELSE [seed |-> rng.seed, pos |-> rng.pos + 96]]

\* Variant: ock and input are drawn from the RNG before the mode is looked
\* at, so the RNG advances in both modes.
encrypt_outgoing_plaintext_always_draws(self, cv, cm, rng) ==
    LET fill_ock == fill_bytes(rng, KEY_SIZE)
        fill_input == fill_bytes(fill_ock.rng, OUT_PLAINTEXT_SIZE)
        ock == IF self.ovk.some
               THEN derive_ock(self.ovk.v, cv, ExtractedCommitmentBytes(cm),
                               epk_bytes(self.epk))
               ELSE fill_ock.bytes
        input == IF self.ovk.some
                 THEN outgoing_plaintext_bytes(self.note, self.esk)
                 ELSE fill_input.bytes
        sealed == encrypt_in_place_detached(ock, input)
    IN [output |-> [i \in 1 .. OUT_CIPHERTEXT_SIZE |->
                      IF i <= OUT_PLAINTEXT_SIZE THEN sealed.buf[i]
                      ELSE sealed.tag[i - OUT_PLAINTEXT_SIZE]],
        rng |-> fill_input.rng]

\* encrypt_outgoing_plaintext: the out_ciphertext and the RNG afterwards.
encrypt_outgoing_plaintext(self, cv, cm, rng) ==
    LET fill_ock == fill_bytes(rng, KEY_SIZE)
        fill_input == fill_bytes(fill_ock.rng, OUT_PLAINTEXT_SIZE)
        ock == IF self.ovk.some
               THEN derive_ock(self.ovk.v, cv, ExtractedCommitmentBytes(cm),
                               epk_bytes(self.epk))
               ELSE fill_ock.bytes
        input == IF self.ovk.some
                 THEN outgoing_plaintext_bytes(self.note, self.esk)
                 ELSE fill_input.bytes
        sealed == encrypt_in_place_detached(ock, input)
    IN [output |-> [i \in 1 .. OUT_CIPHERTEXT_SIZE |->
                      IF i <= OUT_PLAINTEXT_SIZE THEN sealed.buf[i]
                      ELSE sealed.tag[i - OUT_PLAINTEXT_SIZE]],
        rng |-> IF self.ovk.some THEN rng ELSE fill_input.rng]

\* ------------------------------------------------------------------------
\* BatchDomain: the default implementations (lib.rs:318-352)
\* ------------------------------------------------------------------------
\* An item of batch_kdf is [secret, ephemeral_key], the secret an Option.
\* Variant: items without a shared secret are dropped (filter_map).
RECURSIVE batch_kdf_filtered(_)
batch_kdf_filtered(items) ==
    IF items = <<>> THEN <<>>
    ELSE LET item == Head(items)
         IN (IF item.secret.some
             THEN <<Some(kdf(item.secret.v, item.ephemeral_key))>>
             ELSE <<>>)
            \o batch_kdf_filtered(Tail(items))

\* items.map(|(secret, ephemeral_key)| secret.map(kdf)).collect()
RECURSIVE batch_kdf(_)
batch_kdf(items) ==
    IF items = <<>> THEN <<>>
    ELSE LET item == Head(items)
         IN <<IF item.secret.some
              THEN Some(kdf(item.secret.v, item.ephemeral_key))
              ELSE None>>
            \o batch_kdf(Tail(items))

\* ephemeral_keys.map(|k| (epk(&k).map(prepare_epk), k)).collect()
RECURSIVE batch_epk(_)
batch_epk(ephemeral_keys) ==
    IF ephemeral_keys = <<>> THEN <<>>
    ELSE LET ephemeral_key == Head(ephemeral_keys)
             decoded == epk(ephemeral_key)
         IN <<[epk |-> IF decoded.some THEN Some(prepare_epk(decoded.v))
                       ELSE None,
               ephemeral_key |-> ephemeral_key]>>
            \o batch_epk(Tail(ephemeral_keys))

\* ------------------------------------------------------------------------
\* Trial decryption and output recovery (lib.rs:537-767)
\* ------------------------------------------------------------------------
\* Every entry point yields [ret, calls]: the Option it returns and the
\* Domain, ShieldedOutput and cipher operations it performed, in order.

\* Variant: the commitment comparison is left out.
check_note_validity_no_commitment(note, ephemeral_key, cm_bytes) ==
    IF derive_esk(note).some
    THEN IF epk_bytes(ka_derive_public(note, derive_esk(note).v))
              = ephemeral_key
         THEN "Valid"
         ELSE "Invalid"
    ELSE "Valid"

\* Variant: the ZIP 212 comparison of the re-derived epk is left out.
check_note_validity_no_epk(note, ephemeral_key, cm_bytes) ==
    IF ExtractedCommitmentBytes(cmstar(note)) = cm_bytes
    THEN "Valid"
    ELSE "Invalid"

\* Variant: a note without a derivable esk is rejected.
check_note_validity_zip212_only(note, ephemeral_key, cm_bytes) ==
    IF ExtractedCommitmentBytes(cmstar(note)) = cm_bytes
    THEN IF derive_esk(note).some
         THEN IF epk_bytes(ka_derive_public(note, derive_esk(note).v))
                   = ephemeral_key
              THEN "Valid"
              ELSE "Invalid"
         ELSE "Invalid"
    ELSE "Invalid"

check_note_validity(note, ephemeral_key, cm_bytes) ==
    IF ExtractedCommitmentBytes(cmstar(note)) = cm_bytes
    THEN IF derive_esk(note).some
         THEN IF epk_bytes(ka_derive_public(note, derive_esk(note).v))
                   = ephemeral_key
              THEN "Valid"
              ELSE "Invalid"
         ELSE "Valid"
    ELSE "Invalid"

\* Variant: the parsed note is returned without the validity check.
parse_note_plaintext_without_memo_ivk_unchecked(ivk, ephemeral_key, cm_bytes, plaintext) ==
    [ret |-> domain_parse_note_plaintext_without_memo_ivk(ivk, plaintext),
     calls |-> <<"parse_note_plaintext_without_memo_ivk">>]

parse_note_plaintext_without_memo_ivk(ivk, ephemeral_key, cm_bytes, plaintext) ==
    LET parsed == domain_parse_note_plaintext_without_memo_ivk(ivk, plaintext)
    IN IF ~ parsed.some
       THEN [ret |-> None,
             calls |-> <<"parse_note_plaintext_without_memo_ivk">>]
       ELSE [ret |-> IF check_note_validity(parsed.v.note, ephemeral_key,
                                            cm_bytes) = "Valid"
                     THEN parsed ELSE None,
             calls |-> <<"parse_note_plaintext_without_memo_ivk",
                         "check_note_validity">>]

\* Variant: the buffer is decrypted whether or not the tag authenticates it.
try_note_decryption_inner_unauthenticated(ivk, ephemeral_key, output, key) ==
    LET split == split_ciphertext_at_tag(output)
    IN IF ~ split.some
       THEN [ret |-> None, calls |-> <<"split_ciphertext_at_tag">>]
       ELSE
       LET opened == apply_keystream(key, 64, split.v.plaintext)
           parts == split_plaintext_at_memo(opened)
           parsed == parse_note_plaintext_without_memo_ivk(
                         ivk, ephemeral_key, cmstar_bytes(output),
                         parts.v.compact)
       IN [ret |-> IF parsed.ret.some
                   THEN Some([note |-> parsed.ret.v.note,
                              to |-> parsed.ret.v.to,
                              memo |-> parts.v.memo])
                   ELSE None,
           calls |-> <<"split_ciphertext_at_tag",
                       "decrypt_in_place_detached",
                       "split_plaintext_at_memo", "cmstar_bytes">>
                     \o parsed.calls]

try_note_decryption_inner(ivk, ephemeral_key, output, key) ==
    LET split == split_ciphertext_at_tag(output)
    IN IF ~ split.some
       THEN [ret |-> None, calls |-> <<"split_ciphertext_at_tag">>]
       ELSE
       LET opened == decrypt_in_place_detached(key, split.v.plaintext,
                                               split.v.tag)
       IN IF ~ opened.some
          THEN [ret |-> None,
                calls |-> <<"split_ciphertext_at_tag",
                            "decrypt_in_place_detached">>]
          ELSE
          LET parts == split_plaintext_at_memo(opened.v)
          IN IF ~ parts.some
             THEN [ret |-> None,
                   calls |-> <<"split_ciphertext_at_tag",
                               "decrypt_in_place_detached",
                               "split_plaintext_at_memo">>]
             ELSE
             LET parsed == parse_note_plaintext_without_memo_ivk(
                               ivk, ephemeral_key, cmstar_bytes(output),
                               parts.v.compact)
             IN [ret |-> IF parsed.ret.some
                         THEN Some([note |-> parsed.ret.v.note,
                                    to |-> parsed.ret.v.to,
                                    memo |-> parts.v.memo])
                         ELSE None,
                 calls |-> <<"split_ciphertext_at_tag",
                             "decrypt_in_place_detached",
                             "split_plaintext_at_memo", "cmstar_bytes">>
                           \o parsed.calls]

\* Variant: the key is derived without binding it to the ephemeral key.
try_note_decryption_unbound_key(ivk, output) ==
    LET ephemeral_key == output.ephemeral_key
        decoded == epk(ephemeral_key)
    IN IF ~ decoded.some
       THEN [ret |-> None, calls |-> <<"ephemeral_key", "epk">>]
       ELSE LET prepared == prepare_epk(decoded.v)
                shared_secret == ka_agree_dec(ivk, prepared)
                key == kdf(shared_secret, Zeros(32))
                inner == try_note_decryption_inner(ivk, ephemeral_key,
                                                   output, key)
            IN [ret |-> inner.ret,
                calls |-> <<"ephemeral_key", "epk", "prepare_epk",
                            "ka_agree_dec", "kdf">> \o inner.calls]

try_note_decryption(ivk, output) ==
    LET ephemeral_key == output.ephemeral_key
        decoded == epk(ephemeral_key)
    IN IF ~ decoded.some
       THEN [ret |-> None, calls |-> <<"ephemeral_key", "epk">>]
       ELSE LET prepared == prepare_epk(decoded.v)
                shared_secret == ka_agree_dec(ivk, prepared)
                key == kdf(shared_secret, ephemeral_key)
                inner == try_note_decryption_inner(ivk, ephemeral_key,
                                                   output, key)
            IN [ret |-> inner.ret,
                calls |-> <<"ephemeral_key", "epk", "prepare_epk",
                            "ka_agree_dec", "kdf">> \o inner.calls]

\* Variant: the keystream is applied from block 0.
try_compact_note_decryption_inner_block0(ivk, ephemeral_key, output, key) ==
    LET buffer == parse_compact_note_plaintext_bytes(
                      output.enc_ciphertext_compact)
    IN IF ~ buffer.some
       THEN [ret |-> None, calls |-> <<"enc_ciphertext_compact">>]
       ELSE LET plaintext == apply_keystream(key, 0, buffer.v)
                parsed == parse_note_plaintext_without_memo_ivk(
                              ivk, ephemeral_key, cmstar_bytes(output),
                              plaintext)
            IN [ret |-> IF parsed.ret.some
                        THEN Some([note |-> parsed.ret.v.note,
                                   to |-> parsed.ret.v.to])
                        ELSE None,
                calls |-> <<"enc_ciphertext_compact", "apply_keystream",
                            "cmstar_bytes">> \o parsed.calls]

try_compact_note_decryption_inner(ivk, ephemeral_key, output, key) ==
    LET buffer == parse_compact_note_plaintext_bytes(
                      output.enc_ciphertext_compact)
    IN IF ~ buffer.some
       THEN [ret |-> None, calls |-> <<"enc_ciphertext_compact">>]
       ELSE LET plaintext == apply_keystream(key, 64, buffer.v)
                parsed == parse_note_plaintext_without_memo_ivk(
                              ivk, ephemeral_key, cmstar_bytes(output),
                              plaintext)
            IN [ret |-> IF parsed.ret.some
                        THEN Some([note |-> parsed.ret.v.note,
                                   to |-> parsed.ret.v.to])
                        ELSE None,
                calls |-> <<"enc_ciphertext_compact", "apply_keystream",
                            "cmstar_bytes">> \o parsed.calls]

\* Variant: an undecodable ephemeral key is treated as the identity and
\* decryption goes on.
try_compact_note_decryption_lenient(ivk, output) ==
    LET ephemeral_key == output.ephemeral_key
        decoded == epk(ephemeral_key)
        prepared == prepare_epk(IF decoded.some THEN decoded.v ELSE 0)
        shared_secret == ka_agree_dec(ivk, prepared)
        key == kdf(shared_secret, ephemeral_key)
        inner == try_compact_note_decryption_inner(
                     ivk, ephemeral_key, output, key)
    IN [ret |-> inner.ret,
        calls |-> <<"ephemeral_key", "epk", "prepare_epk",
                    "ka_agree_dec", "kdf">> \o inner.calls]

try_compact_note_decryption(ivk, output) ==
    LET ephemeral_key == output.ephemeral_key
        decoded == epk(ephemeral_key)
    IN IF ~ decoded.some
       THEN [ret |-> None, calls |-> <<"ephemeral_key", "epk">>]
       ELSE LET prepared == prepare_epk(decoded.v)
                shared_secret == ka_agree_dec(ivk, prepared)
                key == kdf(shared_secret, ephemeral_key)
                inner == try_compact_note_decryption_inner(
                             ivk, ephemeral_key, output, key)
            IN [ret |-> inner.ret,
                calls |-> <<"ephemeral_key", "epk", "prepare_epk",
                            "ka_agree_dec", "kdf">> \o inner.calls]

try_output_recovery_with_pkd_esk(pk_d, esk, output) ==
    LET ephemeral_key == output.ephemeral_key
        shared_secret == ka_agree_enc(esk, pk_d)
        key == kdf(shared_secret, ephemeral_key)
        split == split_ciphertext_at_tag(output)
        head == <<"ephemeral_key", "ka_agree_enc", "kdf",
                  "split_ciphertext_at_tag">>
    IN IF ~ split.some THEN [ret |-> None, calls |-> head]
       ELSE
       LET opened == decrypt_in_place_detached(key, split.v.plaintext,
                                               split.v.tag)
       IN IF ~ opened.some
          THEN [ret |-> None,
                calls |-> head \o <<"decrypt_in_place_detached">>]
          ELSE
          LET parts == split_plaintext_at_memo(opened.v)
          IN IF ~ parts.some
             THEN [ret |-> None,
                   calls |-> head \o <<"decrypt_in_place_detached",
                                       "split_plaintext_at_memo">>]
             ELSE
             LET parsed == parse_note_plaintext_without_memo_ovk(
                               pk_d, parts.v.compact)
                 upto == head \o <<"decrypt_in_place_detached",
                                   "split_plaintext_at_memo",
                                   "parse_note_plaintext_without_memo_ovk">>
             IN IF ~ parsed.some THEN [ret |-> None, calls |-> upto]
                ELSE IF derive_esk(parsed.v.note).some
                        /\ derive_esk(parsed.v.note).v # esk
                THEN [ret |-> None, calls |-> upto \o <<"derive_esk">>]
                ELSE [ret |-> IF check_note_validity(
                                     parsed.v.note, ephemeral_key,
                                     cmstar_bytes(output)) = "Valid"
                              THEN Some([note |-> parsed.v.note,
                                         to |-> parsed.v.to,
                                         memo |-> parts.v.memo])
                              ELSE None,
                      calls |-> upto \o <<"derive_esk", "cmstar_bytes",
                                          "check_note_validity">>]

\* Variant: a 32-byte body, the tag read from out_ciphertext[32..48].
try_output_recovery_with_ock_body32(ock, output, out_ciphertext) ==
    LET op == SubSeq(out_ciphertext, 1, 32)
        opened == decrypt_in_place_detached(
                      ock, op, SubSeq(out_ciphertext, 33, 48))
    IN IF ~ opened.some
       THEN [ret |-> None, calls |-> <<"decrypt_out">>]
       ELSE IF ~ extract_pk_d(opened.v \o Zeros(32)).some
       THEN [ret |-> None, calls |-> <<"decrypt_out", "extract_pk_d">>]
       ELSE IF ~ extract_esk(opened.v \o Zeros(32)).some
       THEN [ret |-> None,
             calls |-> <<"decrypt_out", "extract_pk_d", "extract_esk">>]
       ELSE LET rest == try_output_recovery_with_pkd_esk(
                            extract_pk_d(opened.v \o Zeros(32)).v,
                            extract_esk(opened.v \o Zeros(32)).v, output)
            IN [ret |-> rest.ret,
                calls |-> <<"decrypt_out", "extract_pk_d", "extract_esk">>
                          \o rest.calls]

\* Variant: the outgoing plaintext is decrypted whether or not the tag
\* authenticates it.
try_output_recovery_with_ock_unauthenticated(ock, output, out_ciphertext) ==
    LET op == SubSeq(out_ciphertext, 1, OUT_PLAINTEXT_SIZE)
        opened == Some(apply_keystream(ock, 64, op))
    IN IF ~ extract_pk_d(opened.v).some
       THEN [ret |-> None, calls |-> <<"decrypt_out", "extract_pk_d">>]
       ELSE IF ~ extract_esk(opened.v).some
       THEN [ret |-> None,
             calls |-> <<"decrypt_out", "extract_pk_d", "extract_esk">>]
       ELSE LET rest == try_output_recovery_with_pkd_esk(
                            extract_pk_d(opened.v).v,
                            extract_esk(opened.v).v, output)
            IN [ret |-> rest.ret,
                calls |-> <<"decrypt_out", "extract_pk_d", "extract_esk">>
                          \o rest.calls]

try_output_recovery_with_ock(ock, output, out_ciphertext) ==
    LET op == SubSeq(out_ciphertext, 1, OUT_PLAINTEXT_SIZE)
        opened == decrypt_in_place_detached(
                      ock, op,
                      SubSeq(out_ciphertext, OUT_PLAINTEXT_SIZE + 1,
                             OUT_CIPHERTEXT_SIZE))
    IN IF ~ opened.some
       THEN [ret |-> None, calls |-> <<"decrypt_out">>]
       ELSE IF ~ extract_pk_d(opened.v).some
       THEN [ret |-> None, calls |-> <<"decrypt_out", "extract_pk_d">>]
       ELSE IF ~ extract_esk(opened.v).some
       THEN [ret |-> None,
             calls |-> <<"decrypt_out", "extract_pk_d", "extract_esk">>]
       ELSE LET rest == try_output_recovery_with_pkd_esk(
                            extract_pk_d(opened.v).v,
                            extract_esk(opened.v).v, output)
            IN [ret |-> rest.ret,
                calls |-> <<"decrypt_out", "extract_pk_d", "extract_esk">>
                          \o rest.calls]

try_output_recovery_with_ovk(ovk, output, cv, out_ciphertext) ==
    LET ock == derive_ock(ovk, cv, cmstar_bytes(output),
                          output.ephemeral_key)
        rest == try_output_recovery_with_ock(ock, output, out_ciphertext)
    IN [ret |-> rest.ret,
        calls |-> <<"cmstar_bytes", "ephemeral_key", "derive_ock">>
                  \o rest.calls]

\* ------------------------------------------------------------------------
\* The state machine: a sender encrypts one note, the output travels, and
\* viewing-key holders try to decrypt it
\* ------------------------------------------------------------------------
\* Inputs of the operations.
Diversifiers == {1, 3}
RecipientIvks == {2, 3}
TrialIvks == Scalars
Ovks == {1, 2}
ValueCommitments == {0, 1}
Memos == {[i \in 1 .. MemoSize |-> (5 + (3 * i)) % 8]}
SenderOvks == {None, Some(1)}
SuppliedEsks == {2}
InputNotes ==
    {n \in Notes :
        /\ n.d \in Diversifiers
        /\ \E ivk \in RecipientIvks : n.pk_d = (ivk * n.d) % Q
        /\ n.value <= MaxValue
        /\ n.rseed <= MaxRseed}

\* The incoming viewing key an address belongs to: pk_d = [ivk] g_d.
IvkOf(note) == CHOOSE ivk \in Scalars : (ivk * note.d) % Q = note.pk_d

NoCtx == [epk |-> 0, esk |-> 0, note |-> 0, memo |-> <<>>, ovk |-> None]
NoRes == [op |-> "none", args |-> <<>>, ret |-> None, calls |-> <<>>]
NoHist ==
    [built |-> "none", ovk |-> None, note |-> 0, memo |-> <<>>, prev |-> None]

\* pc      "init", "ctx" (context built), "sent" (output assembled), "panic"
\* ctx     the NoteEncryption
\* rng     the caller's RNG: [seed, pos]
\* enc     the last result of encrypt_note_plaintext, an Option
\* out     the last result of encrypt_outgoing_plaintext with its cv, an Option
\* output  the shielded output as the decrypting party sees it
\* res     the last decryption call: [op, args, ret, calls]
\* hist    what the sender did: the constructor called and its arguments,
\*         and, while the context is in use, the result of the call of
\*         encrypt_note_plaintext before the last one
VARIABLES pc, ctx, rng, enc, out, output, res, hist

vars == <<pc, ctx, rng, enc, out, output, res, hist>>

Init ==
    /\ pc = "init"
    /\ ctx = NoCtx
    /\ rng = [seed |-> 0, pos |-> 0]
    /\ enc = None
    /\ out = None
    /\ output = None
    /\ res = NoRes
    /\ hist = NoHist

\* NoteEncryption::new(ovk, note, memo); expect("ZIP 212 is active.") panics
\* on a note without a derivable esk.
New(ovk, note, memo) ==
    /\ pc = "init"
    /\ IF derive_esk(note).some
       THEN /\ pc' = "ctx"
            /\ ctx' = new(ovk, note, memo)
            /\ hist' = [built |-> "new", ovk |-> ovk, note |-> note,
                        memo |-> memo, prev |-> None]
       ELSE pc' = "panic" /\ ctx' = ctx /\ hist' = hist
    /\ UNCHANGED <<rng, enc, out, output, res>>

\* NoteEncryption::new_with_esk(esk, ovk, note, memo)
NewWithEsk(esk, ovk, note, memo) ==
    /\ pc = "init"
    /\ pc' = "ctx"
    /\ ctx' = new_with_esk(esk, ovk, note, memo)
    /\ hist' = [built |-> "new_with_esk", ovk |-> ovk, note |-> note,
                memo |-> memo, prev |-> None]
    /\ UNCHANGED <<rng, enc, out, output, res>>

EncryptNotePlaintext ==
    /\ pc = "ctx"
    /\ enc' = Some(encrypt_note_plaintext(ctx))
    /\ hist' = [hist EXCEPT !.prev = enc]
    /\ UNCHANGED <<pc, ctx, rng, out, output, res>>

\* The RNG is the caller's; the model stops drawing after MaxRngPos bytes.
MaxRngPos == 96
EncryptOutgoingPlaintext(cv) ==
    /\ pc = "ctx"
    /\ rng.pos <= MaxRngPos
    /\ LET r == encrypt_outgoing_plaintext(ctx, cv, cmstar(ctx.note), rng)
       IN /\ out' = Some([ct |-> r.output, cv |-> cv])
          /\ rng' = r.rng
    /\ UNCHANGED <<hist, pc, ctx, enc, output, res>>

\* The output a transaction carries for this note.
CompactOf(enc_ciphertext) == SubSeq(enc_ciphertext, 1, COMPACT_NOTE_SIZE)
HonestOutput ==
    [ephemeral_key |-> epk_bytes(ctx.epk),
     cmstar |-> cmstar(ctx.note),
     enc_ciphertext |-> enc,
     enc_ciphertext_compact |-> CompactOf(enc.v)]

Send ==
    /\ pc = "ctx"
    /\ enc.some
    /\ out.some
    /\ pc' = "sent"
    /\ output' = Some(HonestOutput)
    /\ hist' = [hist EXCEPT !.prev = None]
    /\ UNCHANGED <<ctx, rng, enc, out, res>>

\* What an adversary may do to the output on its way: alter one byte of
\* enc_ciphertext, replace its tag, attach another commitment or another
\* ephemeral key, or strip it to its compact form.
TamperEncByte(i, mask) ==
    /\ pc = "sent"
    /\ output = Some(HonestOutput)
    /\ LET altered == [enc.v EXCEPT ![i] = Xor(enc.v[i], mask)]
       IN output' = Some([output.v EXCEPT
                            !.enc_ciphertext = Some(altered),
                            !.enc_ciphertext_compact = CompactOf(altered)])
    /\ res' = NoRes
    /\ UNCHANGED <<hist, pc, ctx, rng, enc, out>>

ReplaceTag(tag) ==
    /\ pc = "sent"
    /\ output = Some(HonestOutput)
    /\ tag # SubSeq(enc.v, NOTE_PLAINTEXT_SIZE + 1, ENC_CIPHERTEXT_SIZE)
    /\ output' = Some([output.v EXCEPT !.enc_ciphertext =
                         Some(SubSeq(enc.v, 1, NOTE_PLAINTEXT_SIZE) \o tag)])
    /\ res' = NoRes
    /\ UNCHANGED <<hist, pc, ctx, rng, enc, out>>

AttachCmstar(cm) ==
    /\ pc = "sent"
    /\ output = Some(HonestOutput)
    /\ cm # output.v.cmstar
    /\ output' = Some([output.v EXCEPT !.cmstar = cm])
    /\ res' = NoRes
    /\ UNCHANGED <<hist, pc, ctx, rng, enc, out>>

AttachEphemeralKey(bytes) ==
    /\ pc = "sent"
    /\ output = Some(HonestOutput)
    /\ bytes # output.v.ephemeral_key
    /\ output' = Some([output.v EXCEPT !.ephemeral_key = bytes])
    /\ res' = NoRes
    /\ UNCHANGED <<hist, pc, ctx, rng, enc, out>>

StripToCompact ==
    /\ pc = "sent"
    /\ output = Some(HonestOutput)
    /\ output' = Some([output.v EXCEPT !.enc_ciphertext = None])
    /\ res' = NoRes
    /\ UNCHANGED <<hist, pc, ctx, rng, enc, out>>

\* The decrypting parties.
Record(op, args, r) ==
    /\ res' = [op |-> op, args |-> args, ret |-> r.ret, calls |-> r.calls]
    /\ UNCHANGED <<hist, pc, ctx, rng, enc, out, output>>

TryNoteDecryption(ivk) ==
    /\ pc = "sent"
    /\ Record("try_note_decryption", [ivk |-> ivk],
              try_note_decryption(ivk, output.v))

TryCompactNoteDecryption(ivk) ==
    /\ pc = "sent"
    /\ Record("try_compact_note_decryption", [ivk |-> ivk],
              try_compact_note_decryption(ivk, output.v))

TryOutputRecoveryWithOvk(ovk, cv) ==
    /\ pc = "sent"
    /\ Record("try_output_recovery_with_ovk", [ovk |-> ovk, cv |-> cv],
              try_output_recovery_with_ovk(ovk, output.v, cv, out.v.ct))

TryOutputRecoveryWithOck(ock) ==
    /\ pc = "sent"
    /\ Record("try_output_recovery_with_ock", [ock |-> ock],
              try_output_recovery_with_ock(ock, output.v, out.v.ct))

TryOutputRecoveryWithPkdEsk(pk_d, esk) ==
    /\ pc = "sent"
    /\ Record("try_output_recovery_with_pkd_esk", [pk_d |-> pk_d, esk |-> esk],
              try_output_recovery_with_pkd_esk(pk_d, esk, output.v))

\* Inputs the adversary and the key holders draw from.
TamperPositions ==
    {1, COMPACT_NOTE_SIZE, COMPACT_NOTE_SIZE + 1, NOTE_PLAINTEXT_SIZE,
     NOTE_PLAINTEXT_SIZE + 1, ENC_CIPHERTEXT_SIZE}
OtherTags == {Zeros(AEAD_TAG_SIZE)}
OtherCmstars ==
    {cmstar([ctx.note EXCEPT !.value = (ctx.note.value + 1) % 8]),
     cmstar([ctx.note EXCEPT !.pk_d = 1 + (ctx.note.pk_d % (Q - 1))])}
OtherEphemeralKeys ==
    {Encode32(0), Encode32(1 + (ctx.epk % (Q - 1))),
     [i \in 1 .. 32 |-> IF i = 1 THEN ctx.epk ELSE IF i = 32 THEN 1 ELSE 0]}
TriedPkds == {ctx.note.pk_d, 1 + (ctx.note.pk_d % (Q - 1))}
TriedEsks ==
    {ctx.esk, 1 + (ctx.esk % (Q - 1))}
    \cup (IF derive_esk(ctx.note).some THEN {derive_esk(ctx.note).v} ELSE {})
\* The key and input the last ovk = None call drew from the RNG.
SampledOck ==
    fill_bytes([seed |-> rng.seed, pos |-> rng.pos - 96], KEY_SIZE).bytes
SampledInput ==
    fill_bytes([seed |-> rng.seed, pos |-> rng.pos - 64], OUT_PLAINTEXT_SIZE).bytes
\* The outgoing cipher key the sender sealed out_ciphertext under.
SenderOck ==
    IF ctx.ovk.some
    THEN derive_ock(ctx.ovk.v, out.v.cv,
                    ExtractedCommitmentBytes(cmstar(ctx.note)),
                    epk_bytes(ctx.epk))
    ELSE SampledOck
\* The outgoing cipher keys tried directly: the sender's, and those the
\* known ovks give for the output as received.
TriedOcks ==
    {derive_ock(ovk, out.v.cv, cmstar_bytes(output.v), output.v.ephemeral_key) :
        ovk \in Ovks}
    \cup {SenderOck}

Next ==
    \/ \E ovk \in SenderOvks, note \in InputNotes, memo \in Memos :
          New(ovk, note, memo)
    \/ \E esk \in SuppliedEsks, ovk \in SenderOvks, note \in InputNotes,
          memo \in Memos : NewWithEsk(esk, ovk, note, memo)
    \/ EncryptNotePlaintext
    \/ \E cv \in {1} : EncryptOutgoingPlaintext(cv)
    \/ Send
    \/ \E i \in TamperPositions, mask \in {5} : TamperEncByte(i, mask)
    \/ \E tag \in OtherTags : ReplaceTag(tag)
    \/ pc = "sent" /\ \E cm \in OtherCmstars : AttachCmstar(cm)
    \/ pc = "sent" /\ \E bytes \in OtherEphemeralKeys : AttachEphemeralKey(bytes)
    \/ StripToCompact
    \/ \E ivk \in TrialIvks : TryNoteDecryption(ivk)
    \/ \E ivk \in TrialIvks : TryCompactNoteDecryption(ivk)
    \/ \E ovk \in Ovks, cv \in ValueCommitments : TryOutputRecoveryWithOvk(ovk, cv)
    \/ pc = "sent" /\ \E ock \in TriedOcks : TryOutputRecoveryWithOck(ock)
    \/ pc = "sent" /\ \E pk_d \in TriedPkds, esk \in TriedEsks :
          TryOutputRecoveryWithPkdEsk(pk_d, esk)

Spec == Init /\ [][Next]_vars

\* ------------------------------------------------------------------------
\* Properties
\* ------------------------------------------------------------------------
Calls == {res.calls[i] : i \in 1 .. Len(res.calls)}

\* The context keeps data-model invariant 2: a note with a derivable esk is
\* encrypted under that esk (always so after NoteEncryption::new).
EskConsistent ==
    derive_esk(ctx.note).some => ctx.esk = derive_esk(ctx.note).v
BuiltByNew ==
    derive_esk(ctx.note).some /\ ctx = new(ctx.ovk, ctx.note, ctx.memo)

\* The output is the one the sender assembled.
Honest == pc = "sent" /\ output = Some(HonestOutput)
\* The output carries the sender's ephemeral key, commitment and compact
\* ciphertext (its full ciphertext may be missing or altered past the prefix).
HonestCompact ==
    /\ pc = "sent"
    /\ output.v.ephemeral_key = epk_bytes(ctx.epk)
    /\ output.v.cmstar = cmstar(ctx.note)
    /\ output.v.enc_ciphertext_compact = CompactOf(enc.v)

FullResult == Some([note |-> ctx.note, to |-> recipient(ctx.note),
                    memo |-> ctx.memo])
CompactResult == Some([note |-> ctx.note, to |-> recipient(ctx.note)])

\* C1: an output assembled from a context built by NoteEncryption::new
\* (ephemeral_key = epk_bytes(epk), enc_ciphertext = encrypt_note_plaintext(),
\* cmstar = cmstar(note)) decrypts under the ivk matching the note's pk_d to
\* Some((note, recipient(note), memo)).
C1_RoundTripIvk ==
    (/\ Honest
     /\ BuiltByNew
     /\ res.op = "try_note_decryption"
     /\ res.args.ivk = IvkOf(ctx.note))
    => res.ret = FullResult

C1_Witness ==
    /\ Honest
    /\ BuiltByNew
    /\ res.op = "try_note_decryption"
    /\ res.args.ivk = IvkOf(ctx.note)
    /\ res.ret.some
    /\ res.ret.v.memo = ctx.memo

\* C2: on the compact prefix of an honestly encrypted output,
\* try_compact_note_decryption under the matching ivk returns
\* Some((note, recipient(note))), the first two components of what
\* try_note_decryption returns on the full output; it applies the raw
\* keystream and verifies no tag.
C2_RoundTripCompact ==
    (/\ HonestCompact
     /\ EskConsistent
     /\ res.op = "try_compact_note_decryption"
     /\ res.args.ivk = IvkOf(ctx.note))
    => /\ res.ret = CompactResult
       /\ LET full == try_note_decryption(res.args.ivk, HonestOutput).ret
          IN /\ full.some
             /\ res.ret.v.note = full.v.note
             /\ res.ret.v.to = full.v.to
       /\ "apply_keystream" \in Calls
       /\ "decrypt_in_place_detached" \notin Calls

C2_Witness ==
    /\ HonestCompact
    /\ EskConsistent
    /\ ~ output.v.enc_ciphertext.some
    /\ res.op = "try_compact_note_decryption"
    /\ res.args.ivk = IvkOf(ctx.note)
    /\ res.ret.some

\* C3: when the context holds Some(ovk) and out_ciphertext came from
\* encrypt_outgoing_plaintext(cv, cmstar(note), rng), recovery with that
\* ovk and cv on the assembled output returns Some((note, recipient, memo)).
C3_RoundTripOvk ==
    (/\ Honest
     /\ EskConsistent
     /\ res.op = "try_output_recovery_with_ovk"
     /\ ctx.ovk = Some(res.args.ovk)
     /\ res.args.cv = out.v.cv)
    => res.ret = FullResult

C3_Witness ==
    /\ Honest
    /\ res.op = "try_output_recovery_with_ovk"
    /\ ctx.ovk = Some(res.args.ovk)
    /\ res.args.cv = out.v.cv
    /\ res.ret = FullResult

\* C4: with ovk = None the out_ciphertext is the AEAD encryption of the
\* RNG-sampled input under the RNG-sampled ock, and recovery returns None
\* for every ovk whose derived ock is not the sampled one.
C4_OvkNoneSecrecy ==
    (out.some /\ ~ ctx.ovk.some)
    => /\ LET sealed == encrypt_in_place_detached(SampledOck, SampledInput)
          IN out.v.ct = sealed.buf \o sealed.tag
       /\ (/\ res.op = "try_output_recovery_with_ovk"
           /\ derive_ock(res.args.ovk, res.args.cv, cmstar_bytes(output.v),
                         output.v.ephemeral_key) # SampledOck)
          => res.ret = None

C4_Witness ==
    /\ out.some
    /\ ~ ctx.ovk.some
    /\ Honest
    /\ res.op = "try_output_recovery_with_ovk"
    /\ res.ret = None

\* C5: when enc_ciphertext differs from the sender's (in its body or in its
\* tag) and the ephemeral key is the sender's, try_note_decryption returns
\* None at the tag check, before anything is split or parsed.
C5_Tampering ==
    (/\ pc = "sent"
     /\ output.v.enc_ciphertext.some
     /\ output.v.enc_ciphertext # enc
     /\ output.v.ephemeral_key = epk_bytes(ctx.epk)
     /\ res.op = "try_note_decryption")
    => /\ res.ret = None
       /\ res.calls[Len(res.calls)] = "decrypt_in_place_detached"
       /\ "split_plaintext_at_memo" \notin Calls
       /\ "parse_note_plaintext_without_memo_ivk" \notin Calls

C5_Witness ==
    /\ pc = "sent"
    /\ output.v.enc_ciphertext.some
    /\ output.v.enc_ciphertext # enc
    /\ SubSeq(output.v.enc_ciphertext.v, 1, NOTE_PLAINTEXT_SIZE)
         = SubSeq(enc.v, 1, NOTE_PLAINTEXT_SIZE)
    /\ res.op = "try_note_decryption"
    /\ res.args.ivk = IvkOf(ctx.note)
    /\ res.ret = None

\* C6: on an honestly encrypted output, an ivk that does not correspond to
\* the note's pk_d makes try_note_decryption and try_compact_note_decryption
\* return None.
C6_WrongKey ==
    (/\ HonestCompact
     /\ (output.v.enc_ciphertext.some => output.v.enc_ciphertext = enc)
     /\ res.op \in {"try_note_decryption", "try_compact_note_decryption"}
     /\ res.args.ivk # IvkOf(ctx.note))
    => res.ret = None

C6_Witness ==
    /\ Honest
    /\ res.op = "try_compact_note_decryption"
    /\ res.args.ivk # IvkOf(ctx.note)
    /\ "check_note_validity" \in Calls
    /\ res.ret = None

\* C7: whenever a decryption or recovery entry point returns Some with a
\* note, the bytes of cmstar(note) are the output's cmstar_bytes; an
\* otherwise valid output whose cmstar is not that of the encrypted note
\* makes every entry point that recovers this note (the ivk paths, the
\* ovk and ock paths, the pk_d/esk path given the note's pk_d) return None.
C7_CommitmentBinding ==
    (pc = "sent" /\ res.op # "none")
    => /\ res.ret.some =>
            ExtractedCommitmentBytes(cmstar(res.ret.v.note))
              = cmstar_bytes(output.v)
       /\ (/\ output.v.cmstar # cmstar(ctx.note)
           /\ (res.op = "try_output_recovery_with_pkd_esk"
                 => res.args.pk_d = ctx.note.pk_d))
          => res.ret = None

C7_Witness ==
    /\ pc = "sent"
    /\ output.v.cmstar # cmstar(ctx.note)
    /\ "check_note_validity" \in Calls
    /\ res.ret = None

\* C8: when the note's derived esk differs from the esk that produced the
\* output's epk, try_note_decryption, try_compact_note_decryption and
\* try_output_recovery_with_{ovk, ock, pkd_esk} all return None.
C8_EskConsistency ==
    (/\ pc = "sent"
     /\ res.op # "none"
     /\ derive_esk(ctx.note).some
     /\ derive_esk(ctx.note).v # ctx.esk
     /\ output.v.ephemeral_key = epk_bytes(ctx.epk))
    => res.ret = None

C8_Witness ==
    /\ Honest
    /\ derive_esk(ctx.note).some
    /\ derive_esk(ctx.note).v # ctx.esk
    /\ res.op = "try_output_recovery_with_pkd_esk"
    /\ res.calls[Len(res.calls)] = "derive_esk"
    /\ res.ret = None

\* C9: when epk(output.ephemeral_key()) is None, try_note_decryption and
\* try_compact_note_decryption return None having only fetched and decoded
\* the ephemeral key: no key agreement, no KDF, no cipher operation, no
\* read of the ciphertext.
C9_InvalidEpkFailsClosed ==
    (/\ pc = "sent"
     /\ res.op \in {"try_note_decryption", "try_compact_note_decryption"}
     /\ ~ epk(output.v.ephemeral_key).some)
    => /\ res.ret = None
       /\ res.calls = <<"ephemeral_key", "epk">>

C9_Witness ==
    /\ pc = "sent"
    /\ res.op = "try_compact_note_decryption"
    /\ ~ epk(output.v.ephemeral_key).some
    /\ output.v.ephemeral_key # Zeros(32)
    /\ res.ret = None

\* C10 as stated: the out_ciphertext is 48 bytes long in both modes.
C10_Length48 == out.some => Len(out.v.ct) = 48

\* C10, amended: the out_ciphertext returned by encrypt_outgoing_plaintext
\* is OUT_CIPHERTEXT_SIZE = 80 bytes long in both modes: the 64 encrypted
\* input bytes followed by the 16-byte tag.
C10_Length80 ==
    out.some
    => /\ Len(out.v.ct) = 80
       /\ OUT_CIPHERTEXT_SIZE = 80
       /\ SubSeq(out.v.ct, 65, 80)
            = Poly1305Tag(SenderOck, SubSeq(out.v.ct, 1, 64))

C10_Witness ==
    /\ out.some
    /\ ~ ctx.ovk.some
    /\ Len(out.v.ct) = 80
    /\ rng.pos = 96

\* RNG states an ovk = Some result is compared across.
RngStates == {[seed |-> s, pos |-> p] : s \in {0, 5}, p \in {0, 32, 96}}

\* A step that changes the RNG is one call of encrypt_outgoing_plaintext on
\* a context without ovk, and nothing but its result changes with it.
OnlyOutgoingDraws ==
    rng' # rng
    => /\ pc = "ctx"
       /\ ~ ctx.ovk.some
       /\ out'.some
       /\ rng'.seed = rng.seed
       /\ UNCHANGED <<pc, ctx, enc, output, res, hist>>

\* A call on a context with ovk leaves the RNG alone and returns what it
\* returns under every other RNG state.
OvkSomeIgnoresRng ==
    (out' # out /\ ctx.ovk.some)
    => /\ rng' = rng
       /\ \A r \in RngStates :
             out'.v.ct = encrypt_outgoing_plaintext(
                             ctx, out'.v.cv, cmstar(ctx.note), r).output

\* C11 as stated: only encrypt_outgoing_plaintext draws from the RNG, only
\* when ovk is None, and then 64 bytes in total; with ovk the RNG is left
\* unchanged and the result does not depend on it.
C11_Draws64 ==
    [][/\ OnlyOutgoingDraws
       /\ OvkSomeIgnoresRng
       /\ (out' # out /\ ~ ctx.ovk.some) => rng'.pos = rng.pos + 64]_vars

\* C11, amended: only encrypt_outgoing_plaintext draws from the RNG, only
\* when ovk is None, and then 96 bytes in total: the 32 bytes of ock, then
\* the 64 bytes of input; with ovk the RNG is left unchanged and the result
\* does not depend on it.
C11_Draws96 ==
    [][/\ OnlyOutgoingDraws
       /\ OvkSomeIgnoresRng
       /\ (out' # out /\ ~ ctx.ovk.some)
          => /\ rng'.pos = rng.pos + KEY_SIZE + OUT_PLAINTEXT_SIZE
             /\ LET ock == fill_bytes(rng, KEY_SIZE)
                    input == fill_bytes(ock.rng, OUT_PLAINTEXT_SIZE)
                    sealed == encrypt_in_place_detached(ock.bytes,
                                                        input.bytes)
                IN /\ KEY_SIZE + OUT_PLAINTEXT_SIZE = 96
                   /\ rng' = input.rng
                   /\ out'.v.ct = sealed.buf \o sealed.tag]_vars

\* Two calls without ovk have drawn 192 bytes; a call with ovk has drawn none.
C11_Witness ==
    /\ out.some
    /\ ~ ctx.ovk.some
    /\ rng.pos = 2 * 96
    /\ SubSeq(out.v.ct, 1, OUT_PLAINTEXT_SIZE)
         = encrypt_in_place_detached(SampledOck, SampledInput).buf

\* C14 as stated: try_output_recovery_with_ock AEAD-decrypts the 32-byte
\* body out_ciphertext[..32] under ock with out_ciphertext[32..] as the tag;
\* on AEAD failure it returns None, otherwise it extracts pk_d and esk and
\* delegates to try_output_recovery_with_pkd_esk.
C14_Body32 ==
    res.op = "try_output_recovery_with_ock"
    => LET opened == decrypt_in_place_detached(
                         res.args.ock, SubSeq(out.v.ct, 1, 32),
                         SubSeq(out.v.ct, 33, Len(out.v.ct)))
       IN IF ~ opened.some THEN res.ret = None
          ELSE res.ret = try_output_recovery_with_pkd_esk(
                             extract_pk_d(opened.v).v,
                             extract_esk(opened.v).v, output.v).ret

\* C14, amended: try_output_recovery_with_ock AEAD-decrypts the 64-byte
\* body out_ciphertext[..64] under ock with the 16 bytes out_ciphertext[64..]
\* as the tag; on AEAD failure it returns None and does nothing more,
\* otherwise it extracts pk_d and esk from the plaintext (None if either
\* is missing) and delegates to try_output_recovery_with_pkd_esk.
C14_Body64 ==
    res.op = "try_output_recovery_with_ock"
    => LET opened == decrypt_in_place_detached(
                         res.args.ock, SubSeq(out.v.ct, 1, 64),
                         SubSeq(out.v.ct, 65, 80))
       IN IF ~ opened.some
          THEN res.ret = None /\ res.calls = <<"decrypt_out">>
          ELSE IF ~ extract_pk_d(opened.v).some
                  \/ ~ extract_esk(opened.v).some
          THEN res.ret = None /\ "ka_agree_enc" \notin Calls
          ELSE LET rest == try_output_recovery_with_pkd_esk(
                               extract_pk_d(opened.v).v,
                               extract_esk(opened.v).v, output.v)
               IN /\ res.ret = rest.ret
                  /\ res.calls
                       = <<"decrypt_out", "extract_pk_d", "extract_esk">>
                         \o rest.calls

\* The sender's ock opens the 64-byte body and the note is recovered.
C14_Witness ==
    /\ Honest
    /\ ctx.ovk.some
    /\ res.op = "try_output_recovery_with_ock"
    /\ res.args.ock = SenderOck
    /\ decrypt_in_place_detached(res.args.ock, SubSeq(out.v.ct, 1, 64),
                                 SubSeq(out.v.ct, 65, 80)).some
    /\ res.ret = FullResult

\* ------------------------------------------------------------------------
\* The batch operations applied to bounded batches
\* ------------------------------------------------------------------------
\* Each behaviour applies one operation to one input and records the call
\* in res.
MaxBatch == 3

\* Shared secrets as ka_agree_dec gives them, or none; ephemeral keys that
\* decode, the identity, and a non-canonical encoding.
BatchSecrets == {None, Some(2), Some(3)}
BatchEphemeralKeys ==
    {Encode32(0), Encode32(2), Encode32(3),
     [i \in 1 .. 32 |-> IF i = 1 THEN 2 ELSE IF i = 32 THEN 1 ELSE 0]}
BatchItems ==
    [secret : BatchSecrets, ephemeral_key : {Encode32(2), Encode32(3)}]
SeqsUpTo(S, n) == UNION {[1 .. k -> S] : k \in 0 .. n}

BatchKdf(items) ==
    /\ pc = "init"
    /\ res = NoRes
    /\ res' = [op |-> "batch_kdf", args |-> items,
               ret |-> Some(batch_kdf(items)), calls |-> <<>>]
    /\ UNCHANGED <<hist, pc, ctx, rng, enc, out, output>>

BatchEpk(ephemeral_keys) ==
    /\ pc = "init"
    /\ res = NoRes
    /\ res' = [op |-> "batch_epk", args |-> ephemeral_keys,
               ret |-> Some(batch_epk(ephemeral_keys)), calls |-> <<>>]
    /\ UNCHANGED <<hist, pc, ctx, rng, enc, out, output>>

NextBatch ==
    \/ \E items \in SeqsUpTo(BatchItems, MaxBatch) : BatchKdf(items)
    \/ \E ephemeral_keys \in SeqsUpTo(BatchEphemeralKeys, MaxBatch) :
          BatchEpk(ephemeral_keys)

SpecBatch == Init /\ [][NextBatch]_vars

\* C12: batch_kdf returns as many elements as it was given, the i-th None
\* when the i-th shared secret is None and otherwise Some(kdf(secret_i,
\* ephemeral_key_i)); batch_epk returns as many elements as it was given,
\* the i-th being (epk(key_i).map(prepare_epk), key_i): an undecodable key
\* gives None at its own position, every position the non-batched result.
C12_BatchAlignment ==
    /\ res.op = "batch_kdf"
       => /\ Len(res.ret.v) = Len(res.args)
          /\ \A i \in 1 .. Len(res.args) :
                res.ret.v[i]
                  = IF res.args[i].secret.some
                    THEN Some(kdf(res.args[i].secret.v,
                                  res.args[i].ephemeral_key))
                    ELSE None
    /\ res.op = "batch_epk"
       => /\ Len(res.ret.v) = Len(res.args)
          /\ \A i \in 1 .. Len(res.args) :
                /\ res.ret.v[i].ephemeral_key = res.args[i]
                /\ res.ret.v[i].epk
                     = IF epk(res.args[i]).some
                       THEN Some(prepare_epk(epk(res.args[i]).v))
                       ELSE None
                /\ ~ epk(res.args[i]).some => res.ret.v[i].epk = None

\* A batch of three whose middle shared secret is missing.
C12_Witness ==
    /\ res.op = "batch_kdf"
    /\ Len(res.args) = 3
    /\ res.args[1].secret.some
    /\ ~ res.args[2].secret.some
    /\ res.args[3].secret.some
    /\ res.ret.v[2] = None
    /\ res.ret.v[3] = Some(kdf(res.args[3].secret.v,
                               res.args[3].ephemeral_key))

\* ------------------------------------------------------------------------
\* The byte containers built from bounded slices
\* ------------------------------------------------------------------------
MaxN == 3
MaxSliceLen == 3

\* Container widths N, and the slices and tags ([u8; TAG_SIZE]) handed in.
Widths == 0 .. MaxN
SliceBytes == {1, 6}
Slices == SeqsUpTo(SliceBytes, MaxSliceLen)

FromSlice(N, bytes) ==
    /\ pc = "init"
    /\ res = NoRes
    /\ res' = [op |-> "from_slice", args |-> [N |-> N, bytes |-> bytes],
               ret |-> from_slice(N, bytes), calls |-> <<>>]
    /\ UNCHANGED <<hist, pc, ctx, rng, enc, out, output>>

FromSliceWithTag(N, output_bytes, tag) ==
    /\ pc = "init"
    /\ res = NoRes
    /\ res' = [op |-> "from_slice_with_tag",
               args |-> [N |-> N, output |-> output_bytes, tag |-> tag],
               ret |-> from_slice_with_tag(N, output_bytes, tag),
               calls |-> <<>>]
    /\ UNCHANGED <<hist, pc, ctx, rng, enc, out, output>>

NextNoteBytes ==
    \/ \E N \in Widths, bytes \in Slices : FromSlice(N, bytes)
    \/ \E N \in Widths, output_bytes \in Slices, tag \in Slices :
          FromSliceWithTag(N, output_bytes, tag)

SpecNoteBytes == Init /\ [][NextNoteBytes]_vars

\* C13: from_slice(bytes) returns Some holding exactly bytes iff
\* bytes.len() = N; from_slice_with_tag(output, tag) returns
\* Some(output || tag) iff output.len() + TAG_SIZE = N and None otherwise,
\* also when N < TAG_SIZE.
C13_LengthChecked ==
    /\ res.op = "from_slice"
       => /\ res.ret.some <=> Len(res.args.bytes) = res.args.N
          /\ res.ret.some => res.ret.v = res.args.bytes
          /\ ~ res.ret.some => res.ret = None
    /\ res.op = "from_slice_with_tag"
       => /\ res.ret.some
             <=> Len(res.args.output) + Len(res.args.tag) = res.args.N
          /\ res.ret.some => res.ret.v = res.args.output \o res.args.tag
          /\ ~ res.ret.some => res.ret = None
          /\ res.args.N < Len(res.args.tag) => res.ret = None

\* A container narrower than the tag, handed an empty body.
C13_Witness ==
    /\ res.op = "from_slice_with_tag"
    /\ res.args.N > 0
    /\ res.args.N < Len(res.args.tag)
    /\ res.args.output = <<>>
    /\ res.ret = None

\* ------------------------------------------------------------------------
\* The validity check applied to bounded notes, keys and commitments
\* ------------------------------------------------------------------------
ValidityEphemeralKeys == {Encode32(p) : p \in Scalars}
\* Commitments an output may carry: that of the note, and those of notes
\* differing from it in one field.
ValidityCmstarBytes(note) ==
    {ExtractedCommitmentBytes(cmstar(n)) :
        n \in {note,
               [note EXCEPT !.value = (note.value + 1) % 8],
               [note EXCEPT !.zip212 = ~ note.zip212],
               [note EXCEPT !.pk_d = 1 + (note.pk_d % (Q - 1))]}}
\* Compact plaintexts: that of the note, and one with an unknown lead byte.
ValidityPlaintexts(note) ==
    {SubSeq(note_plaintext_bytes(note, <<>>), 1, COMPACT_NOTE_SIZE),
     <<0, note.d, note.value, note.rseed>>}

CheckNoteValidity(note, ephemeral_key, cm_bytes) ==
    /\ pc = "init"
    /\ res = NoRes
    /\ res' = [op |-> "check_note_validity",
               args |-> [note |-> note, ephemeral_key |-> ephemeral_key,
                         cmstar_bytes |-> cm_bytes],
               ret |-> Some(check_note_validity(note, ephemeral_key,
                                                cm_bytes)),
               calls |-> <<>>]
    /\ UNCHANGED <<hist, pc, ctx, rng, enc, out, output>>

ParseNotePlaintextWithoutMemoIvk(ivk, ephemeral_key, cm_bytes, plaintext) ==
    /\ pc = "init"
    /\ res = NoRes
    /\ LET r == parse_note_plaintext_without_memo_ivk(
                    ivk, ephemeral_key, cm_bytes, plaintext)
       IN res' = [op |-> "parse_note_plaintext_without_memo_ivk",
                  args |-> [ivk |-> ivk, ephemeral_key |-> ephemeral_key,
                            cmstar_bytes |-> cm_bytes,
                            plaintext |-> plaintext],
                  ret |-> r.ret, calls |-> r.calls]
    /\ UNCHANGED <<hist, pc, ctx, rng, enc, out, output>>

NextValidity ==
    \/ \E note \in InputNotes, ephemeral_key \in ValidityEphemeralKeys :
          \E cm_bytes \in ValidityCmstarBytes(note) :
             CheckNoteValidity(note, ephemeral_key, cm_bytes)
    \/ \E note \in InputNotes, ivk \in RecipientIvks,
          ephemeral_key \in ValidityEphemeralKeys :
          \E cm_bytes \in ValidityCmstarBytes(note),
             plaintext \in ValidityPlaintexts(note) :
             ParseNotePlaintextWithoutMemoIvk(ivk, ephemeral_key, cm_bytes,
                                              plaintext)

SpecValidity == Init /\ [][NextValidity]_vars

\* The condition C15 gives for acceptance.
Accepts(note, ephemeral_key, cm_bytes) ==
    /\ ExtractedCommitmentBytes(cmstar(note)) = cm_bytes
    /\ \/ ~ derive_esk(note).some
       \/ epk_bytes(ka_derive_public(note, derive_esk(note).v))
            = ephemeral_key

\* C15: check_note_validity accepts a note exactly when its commitment
\* bytes equal cmstar_bytes and either derive_esk(note) is None, whatever
\* the ephemeral_key, or the epk re-derived from derive_esk(note) encodes
\* to the ephemeral_key; in every other case it rejects, and the caller,
\* parse_note_plaintext_without_memo_ivk, returns None.
C15_ValidityCheck ==
    /\ res.op = "check_note_validity"
       => res.ret.v = IF Accepts(res.args.note, res.args.ephemeral_key,
                                 res.args.cmstar_bytes)
                      THEN "Valid" ELSE "Invalid"
    /\ res.op = "parse_note_plaintext_without_memo_ivk"
       => LET parsed == domain_parse_note_plaintext_without_memo_ivk(
                            res.args.ivk, res.args.plaintext)
          IN res.ret = IF parsed.some
                          /\ Accepts(parsed.v.note, res.args.ephemeral_key,
                                     res.args.cmstar_bytes)
                       THEN parsed
                       ELSE None

\* A pre-ZIP-212 note with the right commitment is accepted: no esk is
\* derived to compare the ephemeral key against.
C15_Witness ==
    /\ res.op = "check_note_validity"
    /\ ~ derive_esk(res.args.note).some
    /\ ExtractedCommitmentBytes(cmstar(res.args.note)) = res.args.cmstar_bytes
    /\ res.args.ephemeral_key = Encode32(res.args.note.d)
    /\ res.ret = Some("Valid")

\* ------------------------------------------------------------------------
\* The encryption context over its life
\* ------------------------------------------------------------------------
\* The context holds what NoteEncryption::new was given, the esk derived
\* from the note and the epk derived from the note and that esk.
ContextOfNew ==
    /\ ctx.note = hist.note
    /\ ctx.memo = hist.memo
    /\ ctx.ovk = hist.ovk
    /\ derive_esk(ctx.note) = Some(ctx.esk)
    /\ ctx.epk = ka_derive_public(ctx.note, ctx.esk)

\* C16: after NoteEncryption::new and after any sequence of calls of
\* encrypt_note_plaintext and encrypt_outgoing_plaintext the context holds
\* the same (esk, epk, note, memo, ovk), with epk = ka_derive_public(note,
\* esk) and esk = derive_esk(note); repeated calls of encrypt_note_plaintext
\* on one context return the same ciphertext.
C16_ContextInvariant ==
    [][/\ hist'.built = "new" => ContextOfNew'
       /\ pc # "init" => (ctx' = ctx /\ hist'.built = hist.built)
       /\ enc.some => enc' = enc
       /\ hist'.prev.some => hist'.prev = enc']_vars

\* A context built by new, after two calls of encrypt_outgoing_plaintext
\* that drew from the RNG and a repeated call of encrypt_note_plaintext.
C16_Witness ==
    /\ pc = "ctx"
    /\ hist.built = "new"
    /\ ContextOfNew
    /\ ~ ctx.ovk.some
    /\ rng.pos = 2 * (KEY_SIZE + OUT_PLAINTEXT_SIZE)
    /\ out.some
    /\ hist.prev.some
    /\ hist.prev = enc

====
